---- MODULE Spec2Model ----
(***************************************************************************)
(* A model of mnamer-ts: the filename parser (parser.ts), the filename     *)
(* generator and the move executor (renamer.ts) and the batch loop of the  *)
(* command line (cli.ts).                                                  *)
(*                                                                         *)
(* A string is a sequence of one-character strings, so that the regular    *)
(* expressions, path.extname and the title normalisation are computed      *)
(* character by character, as the code computes them.                      *)
(***************************************************************************)
EXTENDS Integers, Sequences, FiniteSets, TLC

VARIABLES
    input,      \* ParseSpec: the basename handed to parseFilename
    rec,        \* ParseSpec: parseFilename(input)
    out,        \* ParseSpec: generateFilename(rec)
    rec2,       \* ParseSpec: parseFilename(out)
    phase,      \* ParseSpec: "start", "parsed", "generated", "reparsed", "null"
    args,       \* main: the parsed command line (apply, replace, target)
    filePaths,  \* main: the list walkPaths discovered
    idx,        \* main: 1-based position of the for loop in filePaths
    processed,  \* main: the processed counter
    visited,    \* history: the outcome of every iteration so far, in order
    pc,         \* main/renameFile: the statement about to run
    cur,        \* main: parsed and newBasename of the current iteration
    call,       \* renameFile: the frame of the current (or last) call
    fs,         \* the filesystem: stored path -> content
    dirs,       \* the filesystem: the directories that exist
    foldCase    \* the filesystem: names that differ only in letter case
                \* name the same file (as on the default macOS and Windows
                \* volumes)

vars == <<input, rec, out, rec2, phase, args, filePaths, idx, processed,
          visited, pc, cur, call, fs, dirs, foldCase>>

parseVars == <<input, rec, out, rec2, phase>>
mainVars == <<args, filePaths, idx, processed, visited, pc, cur, call, fs, dirs,
              foldCase>>

----------------------------------------------------------------------------
(* Characters and strings                                                  *)

DigitChars == <<"0", "1", "2", "3", "4", "5", "6", "7", "8", "9">>

IsDigit(c) == \E i \in DOMAIN DigitChars : DigitChars[i] = c

DigitVal(c) == (CHOOSE i \in DOMAIN DigitChars : DigitChars[i] = c) - 1

\* s[i], or "" past either end of s
At(s, i) == IF i \in 1..Len(s) THEN s[i] ELSE ""

\* parseInt(digits, 10) on a string of decimal digits
RECURSIVE ParseInt(_)
ParseInt(ds) ==
    IF ds = <<>> THEN 0
    ELSE 10 * ParseInt(SubSeq(ds, 1, Len(ds) - 1)) + DigitVal(ds[Len(ds)])

\* `${n}` for a non-negative integer
RECURSIVE NumToStr(_)
NumToStr(n) ==
    IF n < 10 THEN <<DigitChars[n + 1]>>
    ELSE NumToStr(n \div 10) \o <<DigitChars[(n % 10) + 1]>>

\* String.prototype.toUpperCase on one character of the alphabet in use
UpperOf == ("a" :> "A") @@ ("b" :> "B") @@ ("e" :> "E") @@ ("k" :> "K") @@
           ("m" :> "M") @@ ("s" :> "S") @@ ("v" :> "V") @@ ("x" :> "X")

ToUpper(c) == IF c \in DOMAIN UpperOf THEN UpperOf[c] ELSE c

----------------------------------------------------------------------------
(* path.extname and path.basename (POSIX), on a name without "/"           *)

\* path.extname: from the last dot, unless there is none, it is the first
\* character, or the name is ".."
ExtName(s) ==
    LET dots == {i \in 1..Len(s) : s[i] = "."} IN
    IF dots = {} THEN <<>>
    ELSE LET startDot == CHOOSE i \in dots : \A j \in dots : j <= i IN
         IF startDot = 1 THEN <<>>
         ELSE IF s[1] = "." /\ startDot = Len(s) /\ startDot = 2 THEN <<>>
         ELSE SubSeq(s, startDot, Len(s))

\* path.basename(s, ext): s without the suffix ext, unless ext is empty or all of s
BaseName(s, ext) ==
    IF /\ Len(ext) > 0
       /\ Len(ext) <= Len(s)
       /\ ext # s
       /\ SubSeq(s, Len(s) - Len(ext) + 1, Len(s)) = ext
    THEN SubSeq(s, 1, Len(s) - Len(ext))
    ELSE IF Len(ext) > 0 /\ ext = s THEN <<>> ELSE s

----------------------------------------------------------------------------
(* parser.ts: cleanTitle and titleCase                                     *)

\* s.replace(/[set]+/g, " "): every maximal run of characters of set becomes one space
RECURSIVE ReplaceRunsFrom(_, _, _)
ReplaceRunsFrom(s, set, i) ==
    IF i > Len(s) THEN <<>>
    ELSE IF s[i] \in set
         THEN IF i > 1 /\ s[i - 1] \in set
              THEN ReplaceRunsFrom(s, set, i + 1)
              ELSE <<" ">> \o ReplaceRunsFrom(s, set, i + 1)
         ELSE <<s[i]>> \o ReplaceRunsFrom(s, set, i + 1)

ReplaceRuns(s, set) == ReplaceRunsFrom(s, set, 1)

\* the characters \s matches, within the alphabet in use
WhiteSpace == {" "}

\* String.prototype.trim
Trim(s) ==
    LET keep == {i \in 1..Len(s) : s[i] \notin WhiteSpace} IN
    IF keep = {} THEN <<>>
    ELSE LET lo == CHOOSE i \in keep : \A j \in keep : i <= j
             hi == CHOOSE i \in keep : \A j \in keep : j <= i
         IN SubSeq(s, lo, hi)

cleanTitle(raw) ==
    Trim(ReplaceRuns(ReplaceRuns(ReplaceRuns(raw, {".", "_"}), {"-"}), WhiteSpace))

\* split(" "), capitalise the first character of each word, join(" "): the
\* characters capitalised are the first one and every one that follows a space
titleCase(s) ==
    [i \in 1..Len(s) |-> IF i = 1 \/ s[i - 1] = " " THEN ToUpper(s[i]) ELSE s[i]]

----------------------------------------------------------------------------
(* parser.ts: the three regular expressions                                *)

NoMatch == [matched |-> FALSE]

\* the characters of the class [. _\-]
SepChars == {".", " ", "_", "-"}

\* the position after the longest run of [. _\-] that starts at position p
RECURSIVE SkipSeps(_, _)
SkipSeps(s, p) == IF At(s, p) \in SepChars THEN SkipSeps(s, p + 1) ELSE p

\* [sS](\d{1,2})[eE](\d{2}) at position j: \d{1,2} is greedy, two digits are
\* tried before one
SeasonEpisodeAt(s, j) ==
    IF At(s, j) \notin {"s", "S"} THEN NoMatch
    ELSE IF /\ IsDigit(At(s, j + 1)) /\ IsDigit(At(s, j + 2))
            /\ At(s, j + 3) \in {"e", "E"}
            /\ IsDigit(At(s, j + 4)) /\ IsDigit(At(s, j + 5))
         THEN [matched |-> TRUE, g2 |-> SubSeq(s, j + 1, j + 2),
               g3 |-> SubSeq(s, j + 4, j + 5)]
    ELSE IF /\ IsDigit(At(s, j + 1))
            /\ At(s, j + 2) \in {"e", "E"}
            /\ IsDigit(At(s, j + 3)) /\ IsDigit(At(s, j + 4))
         THEN [matched |-> TRUE, g2 |-> SubSeq(s, j + 1, j + 1),
               g3 |-> SubSeq(s, j + 3, j + 4)]
    ELSE NoMatch

\* (\d{1,2})[xX](\d{2}) at position j
NxNNAt(s, j) ==
    IF /\ IsDigit(At(s, j)) /\ IsDigit(At(s, j + 1))
       /\ At(s, j + 2) \in {"x", "X"}
       /\ IsDigit(At(s, j + 3)) /\ IsDigit(At(s, j + 4))
    THEN [matched |-> TRUE, g2 |-> SubSeq(s, j, j + 1), g3 |-> SubSeq(s, j + 3, j + 4)]
    ELSE IF /\ IsDigit(At(s, j))
            /\ At(s, j + 1) \in {"x", "X"}
            /\ IsDigit(At(s, j + 2)) /\ IsDigit(At(s, j + 3))
         THEN [matched |-> TRUE, g2 |-> SubSeq(s, j, j), g3 |-> SubSeq(s, j + 2, j + 3)]
    ELSE NoMatch

\* ((19|20)\d{2}) at position j
YearDigitsAt(s, j) ==
    /\ \/ At(s, j) = "1" /\ At(s, j + 1) = "9"
       \/ At(s, j) = "2" /\ At(s, j + 1) = "0"
    /\ IsDigit(At(s, j + 2)) /\ IsDigit(At(s, j + 3))

\* \(?((19|20)\d{2})\)? at position j: the optional "(" is tried before its absence
YearAt(s, j) ==
    IF At(s, j) = "(" /\ YearDigitsAt(s, j + 1)
    THEN [matched |-> TRUE, g2 |-> SubSeq(s, j + 1, j + 4), g3 |-> <<>>]
    ELSE IF YearDigitsAt(s, j)
         THEN [matched |-> TRUE, g2 |-> SubSeq(s, j, j + 3), g3 |-> <<>>]
    ELSE NoMatch

TokenAt(kind, s, j) ==
    CASE kind = "tv1" -> SeasonEpisodeAt(s, j)
      [] kind = "tv2" -> NxNNAt(s, j)
      [] kind = "movie" -> YearAt(s, j)

\* [. _\-]* followed by the token, at position p: the run is greedy, so its
\* longest extent j is tried first and shorter ones on backtracking
RECURSIVE TailFrom(_, _, _, _)
TokenOrShorter(t, kind, s, p, j) ==
    IF t.matched THEN t ELSE TailFrom(kind, s, p, j - 1)

TailFrom(kind, s, p, j) ==
    IF j < p THEN NoMatch ELSE TokenOrShorter(TokenAt(kind, s, j), kind, s, p, j)

TailAt(kind, s, p) == TailFrom(kind, s, p, SkipSeps(s, p))

\* the positions after which the rest of the pattern matches
TailPositions(kind, s) == {p \in 2..(Len(s) + 1) : TailAt(kind, s, p).matched}

LeastOf(S) == CHOOSE a \in S : \A b \in S : a <= b

\* the match array: (.+?) is s[st..p-1], then the groups of the tail
MatchResult(s, st, p, t) ==
    [matched |-> TRUE, g1 |-> SubSeq(s, st, p - 1), g2 |-> t.g2, g3 |-> t.g3]

\* from start st, (.+?) takes the fewest characters that let the rest match
MatchFrom(kind, s, st, ends) ==
    MatchResult(s, st, LeastOf({p \in ends : st < p}),
                TailAt(kind, s, LeastOf({p \in ends : st < p})))

\* (.+) in place of (.+?): from the first character, the longest prefix wins
MatchAmong_Greedy(kind, s, ends) ==
    IF ends = {} THEN NoMatch
    ELSE MatchResult(s, 1, CHOOSE p \in ends : \A q \in ends : q <= p,
                     TailAt(kind, s, CHOOSE p \in ends : \A q \in ends : q <= p))

\* the leftmost start from which the pattern matches at all
MatchAmong(kind, s, ends) ==
    IF ends = {} THEN NoMatch
    ELSE MatchFrom(kind, s, LeastOf({a \in 1..Len(s) : \E p \in ends : a < p}), ends)

\* name.match(/(.+?)[. _\-]*TOKEN/)
RegexMatch(kind, s) == MatchAmong(kind, s, TailPositions(kind, s))

----------------------------------------------------------------------------
(* parser.ts: parseFilename; renamer.ts: generateFilename                  *)

\* the null parseFilename returns
NONE == [type |-> "null"]

\* parser.ts lines 43-56
TvRecord(m, name, ext) ==
    [type |-> "tv", title |-> titleCase(cleanTitle(m.g1)),
     season |-> ParseInt(m.g2), episode |-> ParseInt(m.g3),
     ext |-> ext, originalName |-> name]

\* parser.ts lines 61-72
MovieRecord(mm, name, ext) ==
    [type |-> "movie", title |-> titleCase(cleanTitle(mm.g1)),
     year |-> ParseInt(mm.g2), ext |-> ext, originalName |-> name]

\* parser.ts lines 75-85
Fallback(cleaned, name, ext) ==
    IF Len(cleaned) > 0
    THEN [type |-> "movie", title |-> cleaned, ext |-> ext, originalName |-> name]
    ELSE NONE

\* parser.ts lines 60-61
MovieOrFallback(mm, name, ext) ==
    IF mm.matched THEN MovieRecord(mm, name, ext)
    ELSE Fallback(titleCase(cleanTitle(name)), name, ext)

\* parser.ts line 42: name.match(tvRegex1) || name.match(tvRegex2)
FirstOr(m1, name) == IF m1.matched THEN m1 ELSE RegexMatch("tv2", name)

\* the rules with the year rule tried before the TV rules
RulesOn_MovieFirst(m, name, ext) ==
    IF RegexMatch("movie", name).matched
    THEN MovieRecord(RegexMatch("movie", name), name, ext)
    ELSE IF m.matched THEN TvRecord(m, name, ext)
    ELSE Fallback(titleCase(cleanTitle(name)), name, ext)

\* parser.ts lines 43, 58-60: a TV match wins, then the year rule, then the fallback
RulesOn(m, name, ext) ==
    IF m.matched THEN TvRecord(m, name, ext)
    ELSE MovieOrFallback(RegexMatch("movie", name), name, ext)

\* parser.ts lines 35-42
ParseName(name, ext) == RulesOn(FirstOr(RegexMatch("tv1", name), name), name, ext)

\* parser.ts line 35
ParseWithExt(fullname, ext) == ParseName(BaseName(fullname, ext), ext)

\* parser.ts lines 33-34
parseFilename(fullname) == ParseWithExt(fullname, ExtName(fullname))

\* pad2 without the padding
pad2_NoPadding(n) == NumToStr(n)

pad2(n) == IF n < 10 THEN <<"0">> \o NumToStr(n) ELSE NumToStr(n)

generateFilename(parsed) ==
    IF parsed.type = "tv"
    THEN parsed.title \o <<" ", "-", " ", "S">> \o pad2(parsed.season)
           \o <<"E">> \o pad2(parsed.episode) \o parsed.ext
    ELSE IF "year" \in DOMAIN parsed /\ parsed.year # 0
         THEN parsed.title \o <<" ", "(">> \o NumToStr(parsed.year) \o <<")">>
                \o parsed.ext
         ELSE parsed.title \o parsed.ext

----------------------------------------------------------------------------
(* The parser and generator driven on a bounded set of basenames           *)

\* the longest basename stem, in tokens
MaxTokens == 4

\* the pieces basenames are built from: a letter, three separators, "(",
\* SxxEyy markers in both casings and both season widths, an NxNN marker and
\* two years
Tokens ==
    { <<"a">>, <<".">>, <<" ">>, <<"-">>, <<"(">>,
      <<"S", "1", "e", "0", "2">>, <<"s", "1", "2", "E", "0", "3">>,
      <<"1", "x", "0", "4">>,
      <<"2", "0", "0", "7">>, <<"1", "9", "9", "9">> }

\* the extensions appended to a stem: none, or ".m"
Exts == { <<>>, <<".", "m">> }

RECURSIVE Flatten(_)
Flatten(ts) == IF ts = <<>> THEN <<>> ELSE Head(ts) \o Flatten(Tail(ts))

Inputs ==
    { Flatten(ts) \o e : ts \in UNION { [1..n -> Tokens] : n \in 0..MaxTokens },
                         e \in Exts }

\* the values the batch loop's variables keep while only the parser runs
MainIdle ==
    /\ args = [apply |-> FALSE, replace |-> FALSE, target |-> <<>>, hasTarget |-> FALSE,
               sources |-> {}]
    /\ filePaths = <<>>
    /\ idx = 1
    /\ processed = 0
    /\ visited = <<>>
    /\ pc = "idle"
    /\ cur = [parsed |-> NONE, newBasename |-> <<>>]
    /\ call = [started |-> FALSE]
    /\ fs = <<>>
    /\ dirs = {}
    /\ foldCase = FALSE

ParseInit ==
    /\ input \in Inputs
    /\ rec = NONE
    /\ out = <<>>
    /\ rec2 = NONE
    /\ phase = "start"
    /\ MainIdle

\* parseFilename(basename), cli.ts line 186
Parse ==
    /\ phase = "start"
    /\ rec' = parseFilename(input)
    /\ phase' = IF rec' = NONE THEN "null" ELSE "parsed"
    /\ UNCHANGED <<input, out, rec2>>
    /\ UNCHANGED mainVars

\* generateFilename(parsed), cli.ts line 191
Generate ==
    /\ phase = "parsed"
    /\ out' = generateFilename(rec)
    /\ phase' = "generated"
    /\ UNCHANGED <<input, rec, rec2>>
    /\ UNCHANGED mainVars

\* the generated name parsed again, as a second run over the renamed file does
Reparse ==
    /\ phase = "generated"
    /\ rec2' = parseFilename(out)
    /\ phase' = "reparsed"
    /\ UNCHANGED <<input, rec, out>>
    /\ UNCHANGED mainVars

ParseNext == Parse \/ Generate \/ Reparse

ParseSpec == ParseInit /\ [][ParseNext]_vars

----------------------------------------------------------------------------
(* Paths and the filesystem                                                *)

\* A directory is the sequence of its segments below the working directory; a
\* file path is a directory and a basename. path.normalize drops "." segments.
Normalize(segs) == SelectSeq(segs, LAMBDA x : x # ".")

\* path.resolve of a directory / of a file path
ResolveDir(d) == Normalize(d)
Resolve(f) == [dir |-> ResolveDir(f.dir), base |-> f.base]

\* path.join(dir, basename) and path.join(dir, relDir)
JoinFile(d, b) == [dir |-> Normalize(d), base |-> b]
JoinDir(d, r) == Normalize(d \o r)

IsPrefix(a, b) == Len(a) <= Len(b) /\ SubSeq(b, 1, Len(a)) = a

\* a directory and its ancestors: what mkdir(dir, {recursive: true}) ensures
Prefixes(d) == {SubSeq(d, 1, k) : k \in 1..Len(d)}

\* an entry is stored under exactly this spelling
Exists(f, path) == path \in DOMAIN f

\* a path with the letters of its basename in one case
Fold(path) == [dir |-> path.dir, base |-> [i \in DOMAIN path.base |-> ToUpper(path.base[i])]]

\* the filesystem takes both paths for the same name
SameFile(a, b) == a = b \/ (foldCase /\ Fold(a) = Fold(b))

\* the stored entries the filesystem finds under path: at most one
Names(f, path) == {q \in DOMAIN f : SameFile(q, path)}

\* fs.access(path) resolving
Present(f, path) == Names(f, path) # {}

\* the content the filesystem reads under path
ContentAt(f, path) == f[CHOOSE q \in Names(f, path) : TRUE]

\* fs.unlink(path) succeeding
RemoveFile(f, path) == [q \in (DOMAIN f) \ Names(f, path) |-> f[q]]

\* fs.rename(a, b) that leaves a file already at b as it is
MoveFile_KeepExisting(f, a, b) ==
    IF Exists(f, b) THEN RemoveFile(f, a)
    ELSE [q \in ((DOMAIN f) \ (Names(f, a) \cup Names(f, b))) \cup {b} |->
            IF q = b THEN ContentAt(f, a) ELSE f[q]]

\* fs.rename(a, b) succeeding: b holds a's content, whatever was at b is
\* replaced, a is gone
MoveFile(f, a, b) ==
    [q \in ((DOMAIN f) \ (Names(f, a) \cup Names(f, b))) \cup {b} |->
        IF q = b THEN ContentAt(f, a) ELSE f[q]]

\* fs.copyFile(a, b) that writes nothing
CopyFileTo_Nothing(f, a, b) == f

\* fs.copyFile(a, b) succeeding: b holds a's content, a stays
CopyFileTo(f, a, b) ==
    [q \in ((DOMAIN f) \ Names(f, b)) \cup {b} |->
        IF q = b THEN ContentAt(f, a) ELSE f[q]]

----------------------------------------------------------------------------
(* cli.ts: main, and renamer.ts: renameFile, one action per statement that  *)
(* awaits the filesystem                                                   *)

\* the longest list of discovered files
MaxFiles == 2

InDir == <<"in">>
SubDir == <<"in", "sub">>
OutDir == <<"out">>
OutSubDir == <<"out", "sub">>

\* a TV name that is not in normal form, its normal form, and a name that
\* parseFilename rejects
RawName == <<"a", ".", "S", "1", "e", "0", "2", ".", "m">>
NormName == <<"A", " ", "-", " ", "S", "0", "1", "E", "0", "2", ".", "m">>
BadName == <<"-", ".", "m">>

\* a name that differs from its normal form in letter case only
LowerName == <<"a", " ", "-", " ", "s", "0", "1", "e", "0", "2", ".", "m">>

SourceFiles ==
    {[dir |-> d, base |-> b] : d \in {InDir, SubDir}, b \in {RawName, NormName, BadName}}
        \cup {[dir |-> InDir, base |-> LowerName]}

\* files that may already lie in the target tree
TargetFiles == {[dir |-> d, base |-> NormName] : d \in {OutDir, OutSubDir}}

\* --target as typed: the source directory itself, or "out/."
Targets == {InDir, <<"out", ".">>}

\* the resolved source roots: "in", or "in" and "in/sub"
SourceSets == {{InDir}, {InDir, SubDir}}

\* the duplicate-free lists of at most MaxFiles source files
FileLists ==
    {l \in UNION {[1..n -> SourceFiles] : n \in 0..MaxFiles} :
        \A i, j \in DOMAIN l : i # j => l[i] # l[j]}

NoCall ==
    [started |-> FALSE, originalPath |-> [dir |-> <<>>, base |-> <<>>],
     newPath |-> [dir |-> <<>>, base |-> <<>>], destDir |-> <<>>,
     apply |-> FALSE, replace |-> FALSE, fs0 |-> <<>>, dirs0 |-> {},
     ops |-> <<>>, result |-> "none", value |-> [dir |-> <<>>, base |-> <<>>]]

NoCur == [parsed |-> NONE, newBasename |-> <<>>]

ParseIdle ==
    /\ input = <<>>
    /\ rec = NONE
    /\ out = <<>>
    /\ rec2 = NONE
    /\ phase = "idle"

Init ==
    /\ ParseIdle
    /\ args \in {a \in [apply : BOOLEAN, replace : BOOLEAN, hasTarget : BOOLEAN,
                       target : Targets \cup {<<>>}, sources : SourceSets] :
                    a.hasTarget <=> a.target # <<>>}
    /\ filePaths \in FileLists
    /\ idx = 1
    /\ processed = 0
    /\ visited = <<>>
    /\ pc = "start"
    /\ cur = NoCur
    /\ call = NoCall
    /\ \E extra \in {{}, {OutDir}, {OutDir, OutSubDir}} :
       \E obstacles \in SUBSET {t \in TargetFiles : t.dir \in extra} :
          /\ Cardinality(obstacles) <= 1
          /\ dirs = {InDir, SubDir} \cup extra
          /\ fs = [q \in {filePaths[i] : i \in DOMAIN filePaths} \cup obstacles |-> q]
    /\ foldCase \in BOOLEAN
    /\ foldCase => \A p, q \in DOMAIN fs : Fold(p) = Fold(q) => p = q

\* cli.ts findBestSourceForFile: the deepest source root that is an ancestor
\* of the file, as a set of at most one directory
findBestSourceForFile(file) ==
    LET fileResolved == ResolveDir(file.dir \o <<file.base>>)
        hits == {src \in args.sources :
                    LET srcResolved == ResolveDir(src) IN
                    \/ fileResolved = srcResolved
                    \/ IsPrefix(srcResolved, fileResolved)}
    IN {ResolveDir(src) : src \in {h \in hits : \A g \in hits : Len(g) <= Len(h)}}

\* cli.ts lines 203-215: the directory the file is to be placed in
targetLocation(file) ==
    IF args.hasTarget
    THEN LET targetRoot == ResolveDir(args.target)
             best == findBestSourceForFile(file)
         IN IF best # {}
            THEN LET bestSource == CHOOSE b \in best : TRUE
                     relDir == SubSeq(file.dir, Len(bestSource) + 1, Len(file.dir))
                 IN IF relDir # <<>> THEN JoinDir(targetRoot, relDir) ELSE targetRoot
            ELSE targetRoot
    ELSE file.dir

\* the file of the current iteration
CurFile == filePaths[idx]

\* cli.ts line 191: newBasename, once parsed is known not to be null
CurOf(parsed) ==
    [parsed |-> parsed,
     newBasename |-> IF parsed = NONE THEN <<>> ELSE generateFilename(parsed)]

\* renamer.ts line 62 with the comparison left out
SamePath_Never(originalPath, newPath) == FALSE

\* renamer.ts line 62: path.resolve(originalPath) === path.resolve(newPath)
SamePath(originalPath, newPath) == Resolve(originalPath) = Resolve(newPath)

\* renamer.ts line 68 with the dry-run check left out
DryRun_Ignored(apply) == FALSE

\* renamer.ts line 68: !options.apply
DryRun(apply) == ~apply

\* the frame of renameFile(file, newBasename, options) as main calls it:
\* lines 58-60 of renamer.ts
NewCall(file) ==
    LET destDir == targetLocation(file) IN
    [started |-> TRUE, originalPath |-> file,
     newPath |-> JoinFile(destDir, cur.newBasename), destDir |-> destDir,
     apply |-> args.apply, replace |-> args.replace, fs0 |-> fs, dirs0 |-> dirs,
     ops |-> <<>>, result |-> "pending", value |-> [dir |-> <<>>, base |-> <<>>]]

\* where the for loop goes after an iteration failed, had it stopped the batch
AfterFailure_Abort == "done"

\* where the for loop goes after the catch block of lines 227-229: on
AfterFailure == "loop"

\* the iteration ends: the file is recorded with its outcome, counted if the
\* outcome is a success, and the loop moves on
EndIteration(outcome, counted, nextPc) ==
    /\ visited' = Append(visited, [file |-> CurFile, outcome |-> outcome])
    /\ processed' = IF counted THEN processed + 1 ELSE processed
    /\ idx' = idx + 1
    /\ pc' = nextPc

\* renameFile returns newPath: main counts the file (line 226)
Return(ops) ==
    /\ call' = [call EXCEPT !.ops = ops, !.result = "returned", !.value = call.newPath]
    /\ EndIteration("renamed", TRUE, "loop")

\* renameFile throws: main's catch reports it (lines 227-229)
Throw(ops, error) ==
    /\ call' = [call EXCEPT !.ops = ops, !.result = error]
    /\ EndIteration("failed", FALSE, AfterFailure)

\* cli.ts lines 172-175: nothing was discovered
NoFilesFound ==
    /\ pc = "start"
    /\ Len(filePaths) = 0
    /\ pc' = "done"
    /\ UNCHANGED <<foldCase, args, filePaths, cur, idx, processed, visited, call, fs, dirs>>
    /\ UNCHANGED parseVars

\* cli.ts lines 177-183
BeginLoop ==
    /\ pc = "start"
    /\ Len(filePaths) # 0
    /\ pc' = "loop"
    /\ UNCHANGED <<foldCase, args, filePaths, cur, idx, processed, visited, call, fs, dirs>>
    /\ UNCHANGED parseVars

\* cli.ts lines 184-186 and 191: the next file is taken and its basename parsed
ParseFile ==
    /\ pc = "loop" /\ idx <= Len(filePaths)
    /\ cur' = CurOf(parseFilename(CurFile.base))
    /\ pc' = "parsed"
    /\ UNCHANGED <<foldCase, args, filePaths, idx, processed, visited, call, fs, dirs>>
    /\ UNCHANGED parseVars

\* cli.ts lines 187-190: parseFilename returned null
SkipUnparseable ==
    /\ pc = "parsed"
    /\ cur.parsed = NONE
    /\ EndIteration("unparseable", FALSE, "loop")
    /\ UNCHANGED <<foldCase, args, filePaths, cur, call, fs, dirs>>
    /\ UNCHANGED parseVars

\* cli.ts lines 192-196: the name is already the generated one, and no target
NoChange ==
    /\ pc = "parsed"
    /\ cur.parsed # NONE
    /\ cur.newBasename = CurFile.base /\ ~args.hasTarget
    /\ EndIteration("nochange", TRUE, "loop")
    /\ UNCHANGED <<foldCase, args, filePaths, cur, call, fs, dirs>>
    /\ UNCHANGED parseVars

CallsRenameFile ==
    /\ pc = "parsed"
    /\ cur.parsed # NONE
    /\ ~(cur.newBasename = CurFile.base /\ ~args.hasTarget)

\* renamer.ts lines 62-65: source and destination are the same path
RenameSamePath ==
    /\ CallsRenameFile
    /\ LET c == NewCall(CurFile) IN
       /\ SamePath(c.originalPath, c.newPath)
       /\ call' = [c EXCEPT !.result = "returned", !.value = c.newPath]
    /\ EndIteration("renamed", TRUE, "loop")
    /\ UNCHANGED <<foldCase, args, filePaths, cur, fs, dirs>>
    /\ UNCHANGED parseVars

\* renamer.ts lines 68-70: dry run
RenameDryRun ==
    /\ CallsRenameFile
    /\ LET c == NewCall(CurFile) IN
       /\ ~SamePath(c.originalPath, c.newPath)
       /\ DryRun(c.apply)
       /\ call' = [c EXCEPT !.result = "returned", !.value = c.newPath]
    /\ EndIteration("renamed", TRUE, "loop")
    /\ UNCHANGED <<foldCase, args, filePaths, cur, fs, dirs>>
    /\ UNCHANGED parseVars

\* renamer.ts line 73 is reached
RenameApply ==
    /\ CallsRenameFile
    /\ LET c == NewCall(CurFile) IN
       /\ ~SamePath(c.originalPath, c.newPath)
       /\ ~DryRun(c.apply)
       /\ call' = c
    /\ pc' = "mkdir"
    /\ UNCHANGED <<foldCase, args, filePaths, cur, idx, processed, visited, fs, dirs>>
    /\ UNCHANGED parseVars

\* renamer.ts line 73: ensureDir(destDir) succeeds
MkdirOk ==
    /\ pc = "mkdir"
    /\ dirs' = dirs \cup Prefixes(call.destDir)
    /\ call' = [call EXCEPT !.ops = Append(@, <<"mkdir", "ok">>)]
    /\ pc' = "access"
    /\ UNCHANGED <<foldCase, args, filePaths, cur, idx, processed, visited, fs>>
    /\ UNCHANGED parseVars

\* renamer.ts line 73: ensureDir(destDir) fails on a directory it has to
\* create, after creating some of the missing ancestors
MkdirFail ==
    /\ pc = "mkdir"
    /\ call.destDir \notin dirs
    /\ \E k \in 0..(Len(call.destDir) - 1) :
          dirs' = dirs \cup Prefixes(SubSeq(call.destDir, 1, k))
    /\ Throw(Append(call.ops, <<"mkdir", "error">>), "FilesystemError")
    /\ UNCHANGED <<foldCase, args, filePaths, cur, fs>>
    /\ UNCHANGED parseVars

\* renamer.ts lines 77-81, 87-89: the destination exists and replace is off
AccessExistsNoReplace ==
    /\ pc = "access"
    /\ Present(fs, call.newPath)
    /\ ~call.replace
    /\ Throw(Append(call.ops, <<"access", "ok">>), "DestinationExists")
    /\ UNCHANGED <<foldCase, args, filePaths, cur, fs, dirs>>
    /\ UNCHANGED parseVars

\* renamer.ts lines 77-83: the destination exists and replace is on
AccessExistsReplace ==
    /\ pc = "access"
    /\ Present(fs, call.newPath)
    /\ call.replace
    /\ call' = [call EXCEPT !.ops = Append(@, <<"access", "ok">>)]
    /\ pc' = "unlinkDest"
    /\ UNCHANGED <<foldCase, args, filePaths, cur, idx, processed, visited, fs, dirs>>
    /\ UNCHANGED parseVars

\* renamer.ts lines 77, 85-86: fs.access rejects with ENOENT
AccessENOENT ==
    /\ pc = "access"
    /\ ~Present(fs, call.newPath)
    /\ call' = [call EXCEPT !.ops = Append(@, <<"access", "ENOENT">>)]
    /\ pc' = "rename"
    /\ UNCHANGED <<foldCase, args, filePaths, cur, idx, processed, visited, fs, dirs>>
    /\ UNCHANGED parseVars

\* renamer.ts lines 77, 90-92: fs.access rejects with another error, which is
\* dropped
AccessError ==
    /\ pc = "access"
    /\ call' = [call EXCEPT !.ops = Append(@, <<"access", "error">>)]
    /\ pc' = "rename"
    /\ UNCHANGED <<foldCase, args, filePaths, cur, idx, processed, visited, fs, dirs>>
    /\ UNCHANGED parseVars

\* renamer.ts line 83: the existing destination is deleted
UnlinkDestOk ==
    /\ pc = "unlinkDest"
    /\ fs' = RemoveFile(fs, call.newPath)
    /\ call' = [call EXCEPT !.ops = Append(@, <<"unlinkDest", "ok">>)]
    /\ pc' = "rename"
    /\ UNCHANGED <<foldCase, args, filePaths, cur, idx, processed, visited, dirs>>
    /\ UNCHANGED parseVars

\* renamer.ts lines 83, 90-92: deleting the destination fails; the error is
\* dropped
UnlinkDestFail ==
    /\ pc = "unlinkDest"
    /\ call' = [call EXCEPT !.ops = Append(@, <<"unlinkDest", "error">>)]
    /\ pc' = "rename"
    /\ UNCHANGED <<foldCase, args, filePaths, cur, idx, processed, visited, fs, dirs>>
    /\ UNCHANGED parseVars

\* renamer.ts lines 97-98: fs.rename succeeds
RenameOk ==
    /\ pc = "rename"
    /\ Present(fs, call.originalPath)
    /\ fs' = MoveFile(fs, call.originalPath, call.newPath)
    /\ Return(Append(call.ops, <<"rename", "ok">>))
    /\ UNCHANGED <<foldCase, args, filePaths, cur, dirs>>
    /\ UNCHANGED parseVars

\* renamer.ts lines 97, 100: fs.rename rejects with EXDEV, which it cannot do
\* when both paths name one file
RenameEXDEV ==
    /\ pc = "rename"
    /\ Present(fs, call.originalPath)
    /\ ~SameFile(call.originalPath, call.newPath)
    /\ call' = [call EXCEPT !.ops = Append(@, <<"rename", "EXDEV">>)]
    /\ pc' = "copyFile"
    /\ UNCHANGED <<foldCase, args, filePaths, cur, idx, processed, visited, fs, dirs>>
    /\ UNCHANGED parseVars

\* renamer.ts lines 97, 107: fs.rename rejects with another error
RenameFail ==
    /\ pc = "rename"
    /\ Throw(Append(call.ops, <<"rename", "error">>), "FilesystemError")
    /\ UNCHANGED <<foldCase, args, filePaths, cur, fs, dirs>>
    /\ UNCHANGED parseVars

\* renamer.ts line 102: fs.copyFile succeeds
CopyOk ==
    /\ pc = "copyFile"
    /\ Present(fs, call.originalPath)
    /\ fs' = CopyFileTo(fs, call.originalPath, call.newPath)
    /\ call' = [call EXCEPT !.ops = Append(@, <<"copyFile", "ok">>)]
    /\ pc' = "unlinkOrig"
    /\ UNCHANGED <<foldCase, args, filePaths, cur, idx, processed, visited, dirs>>
    /\ UNCHANGED parseVars

\* renamer.ts line 102: fs.copyFile rejects; the destination is as it was, or
\* was removed with the partial copy
CopyFail ==
    /\ pc = "copyFile"
    /\ fs' \in {fs, RemoveFile(fs, call.newPath)}
    /\ Throw(Append(call.ops, <<"copyFile", "error">>), "FilesystemError")
    /\ UNCHANGED <<foldCase, args, filePaths, cur, dirs>>
    /\ UNCHANGED parseVars

\* renamer.ts lines 103-104: the original is deleted after the copy
UnlinkOrigOk ==
    /\ pc = "unlinkOrig"
    /\ fs' = RemoveFile(fs, call.originalPath)
    /\ Return(Append(call.ops, <<"unlinkOrig", "ok">>))
    /\ UNCHANGED <<foldCase, args, filePaths, cur, dirs>>
    /\ UNCHANGED parseVars

\* renamer.ts line 103: deleting the original fails
UnlinkOrigFail ==
    /\ pc = "unlinkOrig"
    /\ Throw(Append(call.ops, <<"unlinkOrig", "error">>), "FilesystemError")
    /\ UNCHANGED <<foldCase, args, filePaths, cur, fs, dirs>>
    /\ UNCHANGED parseVars

\* cli.ts line 232: the loop is over, the summary is printed
Summary ==
    /\ pc = "loop" /\ idx > Len(filePaths)
    /\ pc' = "done"
    /\ UNCHANGED <<foldCase, args, filePaths, cur, idx, processed, visited, call, fs, dirs>>
    /\ UNCHANGED parseVars

Next ==
    \/ NoFilesFound \/ BeginLoop \/ ParseFile \/ SkipUnparseable \/ NoChange
    \/ RenameSamePath \/ RenameDryRun \/ RenameApply
    \/ MkdirOk \/ MkdirFail
    \/ AccessExistsNoReplace \/ AccessExistsReplace \/ AccessENOENT \/ AccessError
    \/ UnlinkDestOk \/ UnlinkDestFail
    \/ RenameOk \/ RenameEXDEV \/ RenameFail
    \/ CopyOk \/ CopyFail
    \/ UnlinkOrigOk \/ UnlinkOrigFail
    \/ Summary

Spec == Init /\ [][Next]_vars

----------------------------------------------------------------------------
(* Properties of renameFile and of the batch loop (Spec)                   *)

\* renameFile has returned or thrown
Finished == call.started /\ call.result # "pending"

Returned == call.started /\ call.result = "returned"

\* the call's source and destination are the same resolved path
SameResolved ==
    /\ ResolveDir(call.originalPath.dir) = ResolveDir(call.newPath.dir)
    /\ call.originalPath.base = call.newPath.base

\* the call has asked nothing of the filesystem and changed nothing
Untouched == call.ops = <<>> /\ fs = call.fs0 /\ dirs = call.dirs0

Did(op, outcome) == \E i \in DOMAIN call.ops : call.ops[i] = <<op, outcome>>

CountOf(op) == Cardinality({i \in DOMAIN call.ops : call.ops[i][1] = op})

\* C1: with apply off, renameFile performs no filesystem operation, leaves the
\* files and directories as they were and returns the destination path,
\* whatever replace is and whether or not the destination or its directory
\* exists.
C1_DryRunTouchesNothing ==
    (call.started /\ ~call.apply) =>
        /\ Untouched
        /\ call.result = "returned"
        /\ call.value = call.newPath

\* C1 witness: a dry run with replace on has returned although a file lies
\* at its destination.
C1_Witness ==
    /\ Returned
    /\ ~call.apply /\ call.replace
    /\ ~SameResolved
    /\ Exists(call.fs0, call.newPath)
    /\ Exists(call.fs0, call.originalPath)

\* C2: when source and destination resolve to the same path, renameFile
\* returns that path and performs no filesystem operation, with apply on or
\* off and whatever replace is.
C2_SamePathNoOp ==
    (call.started /\ SameResolved) =>
        /\ Untouched
        /\ call.result = "returned"
        /\ call.value = call.newPath

\* C2 witness: a call with apply and replace on whose destination is its
\* source has returned, and the file is still there.
C2_Witness ==
    /\ Returned
    /\ SameResolved
    /\ call.apply /\ call.replace
    /\ Exists(fs, call.originalPath)

\* C3: with apply on and replace off, a file at the destination (another
\* path than the source) makes renameFile fail with DestinationExists, and
\* nothing is renamed, copied or deleted.
C3_DestinationExists ==
    (/\ Finished
     /\ call.apply /\ ~call.replace
     /\ ~SameResolved
     /\ Exists(call.fs0, call.newPath)) =>
        /\ call.result = "DestinationExists"
        /\ fs = call.fs0

\* the call's precondition for C4: apply and replace on, a source file, and
\* another file at the destination
ReplaceCase ==
    /\ call.apply /\ call.replace
    /\ ~SameResolved
    /\ Exists(call.fs0, call.originalPath)
    /\ Exists(call.fs0, call.newPath)

\* the destination holds what the source held, and the source is gone
Moved ==
    /\ Exists(fs, call.newPath)
    /\ fs[call.newPath] = call.fs0[call.originalPath]
    /\ ~Exists(fs, call.originalPath)

\* C4 as stated: with apply and replace on and a file at the destination,
\* after renameFile the destination holds the source's content.
C4_Original == (Finished /\ ReplaceCase) => Moved

\* C4 amended: the same, whenever renameFile returns without an error.
C4_ReplaceOnReturn == (Returned /\ ReplaceCase) => Moved

\* C4 witness: the existing destination was deleted, the source renamed onto
\* it, and renameFile returned.
C4_Witness ==
    /\ Returned
    /\ ReplaceCase
    /\ Did("unlinkDest", "ok")
    /\ Did("rename", "ok")

\* C5 as stated: after an EXDEV failure of the rename, the copy is made once,
\* the original is gone, the destination holds its content and no error is
\* surfaced.
C5_Original ==
    (Finished /\ Did("rename", "EXDEV")) =>
        /\ CountOf("copyFile") = 1
        /\ call.result = "returned"
        /\ Moved

\* C5 amended: after an EXDEV failure the copy is attempted once and the
\* rename is not retried; when the copy and the delete of the original both
\* succeed, renameFile returns the destination, the original is gone and the
\* destination holds its content; when either fails, that error is surfaced
\* and the original is still in place (after a failed delete, beside the copy).
C5_Fallback ==
    (Finished /\ Did("rename", "EXDEV")) =>
        /\ CountOf("copyFile") = 1
        /\ CountOf("rename") = 1
        /\ CountOf("unlinkOrig") <= 1
        /\ call.result = "returned" <=> (Did("copyFile", "ok") /\ Did("unlinkOrig", "ok"))
        /\ call.result = "returned" => Moved
        /\ call.result # "returned" =>
              /\ call.result = "FilesystemError"
              /\ Exists(fs, call.originalPath)
              /\ fs[call.originalPath] = call.fs0[call.originalPath]
        /\ Did("unlinkOrig", "error") =>
              /\ Exists(fs, call.newPath)
              /\ fs[call.newPath] = call.fs0[call.originalPath]

\* C5 witness: the fallback ran into a directory the call created and
\* renameFile returned.
C5_Witness ==
    /\ Returned
    /\ Did("rename", "EXDEV")
    /\ call.destDir \notin call.dirs0
    /\ Moved

\* the outcomes main counts as processed
Counted == {"renamed", "nochange"}

InCall == pc \in {"mkdir", "access", "unlinkDest", "rename", "copyFile", "unlinkOrig"}

\* what is left of the batch: the files still to visit, then the statements
\* left in the current iteration
PcRank ==
    [start |-> 9, loop |-> 8, parsed |-> 7, mkdir |-> 6, access |-> 5,
     unlinkDest |-> 4, rename |-> 3, copyFile |-> 2, unlinkOrig |-> 1,
     done |-> 0, idle |-> 0]

Remaining == (Len(filePaths) + 1 - idx) * 10 + PcRank[pc]

\* some statement of main or renameFile can run: the next file can be parsed
\* (the guard of ParseFile) or another step is enabled
CanStep ==
    \/ pc = "loop" /\ idx <= Len(filePaths)
    \/ ENABLED \/ NoFilesFound \/ BeginLoop \/ SkipUnparseable \/ NoChange
               \/ RenameSamePath \/ RenameDryRun \/ RenameApply
               \/ MkdirOk \/ MkdirFail
               \/ AccessExistsNoReplace \/ AccessExistsReplace
               \/ AccessENOENT \/ AccessError
               \/ UnlinkDestOk \/ UnlinkDestFail
               \/ RenameOk \/ RenameEXDEV \/ RenameFail
               \/ CopyOk \/ CopyFail
               \/ UnlinkOrigOk \/ UnlinkOrigFail
               \/ Summary

C6_LoopState ==
    /\ idx \in 1..(Len(filePaths) + 1)
    /\ Len(visited) = idx - 1
    /\ \A i \in DOMAIN visited : visited[i].file = filePaths[i]
    /\ processed = Cardinality({i \in DOMAIN visited : visited[i].outcome \in Counted})
    /\ pc = "parsed" \/ InCall => idx <= Len(filePaths)
    /\ InCall => call.originalPath = filePaths[idx]
    /\ pc = "done" => Len(visited) = Len(filePaths)
    /\ pc # "done" => CanStep

\* C6: the batch loop visits every discovered file once, in order, one at a
\* time; a file that is unparseable or whose rename fails is not counted as
\* processed and does not stop the loop, which goes on to the summary: no
\* state before the summary is stuck and every step brings it nearer.
C6_BatchRunsToSummary ==
    [][C6_LoopState /\ C6_LoopState' /\ Remaining' < Remaining]_vars

\* C6 witness: the summary was reached after a rename failed on the first
\* file and the second was renamed.
C6_Witness ==
    /\ pc = "done"
    /\ Len(visited) = 2
    /\ visited[1].outcome = "failed"
    /\ visited[2].outcome = "renamed"
    /\ processed = 1

\* the content the source held when renameFile was called lies under path
HoldsSource(path) ==
    /\ Exists(fs, path)
    /\ fs[path] = call.fs0[call.originalPath]

\* an apply-mode call that got past the early returns, on a source that was
\* there when it began
ApplyCall ==
    /\ call.started /\ call.apply
    /\ ~SameResolved
    /\ Exists(call.fs0, call.originalPath)

\* C11: in every intermediate and final state of an apply-mode call,
\* whichever of mkdir, the existence check, the delete of an existing
\* destination, rename, copy or delete of the original fails, the source's
\* content lies at the source path or at the destination path.
C11_SourceNeverLost ==
    ApplyCall => HoldsSource(call.originalPath) \/ HoldsSource(call.newPath)

----------------------------------------------------------------------------
(* Properties of the parser and the generator (ParseSpec)                  *)

Parsed == phase \in {"parsed", "generated", "reparsed"}

\* the name parseFilename works on: the basename without its extension
Stem == BaseName(input, ExtName(input))

\* C7: every record parseFilename returns has a non-empty title, and it
\* returns null only when the normalised fallback title is empty.
C7_TitleNonEmpty ==
    /\ Parsed => Len(rec.title) > 0
    /\ phase = "null" => Len(titleCase(cleanTitle(Stem))) = 0

\* a record without originalName: type, title, season, episode, year, ext
Core(r) == [f \in (DOMAIN r) \ {"originalName"} |-> r[f]]

\* C8: parsing the generated name of a parsed record gives a record with the
\* same type, title, season, episode, year and extension, so that generating
\* again gives the same name.
C8_RoundTrip ==
    phase = "reparsed" =>
        /\ rec2 # NONE
        /\ Core(rec2) = Core(rec)
        /\ generateFilename(rec2) = out

\* C8 witness: a TV name that was not in normal form has been generated and
\* parsed again.
C8_Witness ==
    /\ phase = "reparsed"
    /\ rec.type = "tv"
    /\ rec.season = 12
    /\ Len(rec.title) > 0
    /\ out # input

\* a marker S<s>E<ee> that starts at position j of s with a season of sd digits
\* and ends at position j + sd + 3
MarkerAt(s, j, sd) ==
    /\ At(s, j) \in {"s", "S"}
    /\ \A d \in 1..sd : IsDigit(At(s, j + d))
    /\ At(s, j + sd + 1) \in {"e", "E"}
    /\ IsDigit(At(s, j + sd + 2)) /\ IsDigit(At(s, j + sd + 3))

\* the ways input reads as Name + separators + S<s>E<ee> + ".ext": i is the
\* length of Name, j the position of the marker, sd the digits of the season
TVForms ==
    LET n == Len(Stem) IN
    IF Len(ExtName(input)) <= 1 THEN {}
    ELSE UNION { { [i |-> i, j |-> n - sd - 3, sd |-> sd] :
                     i \in { k \in 1..(n - sd - 5) :
                               \A q \in (k + 1)..(n - sd - 4) : Stem[q] \in SepChars } } :
                 sd \in { d \in {1, 2} : MarkerAt(Stem, n - d - 3, d) } }

FormSeason(f) == ParseInt(SubSeq(Stem, f.j + 1, f.j + f.sd))
FormEpisode(f) == ParseInt(SubSeq(Stem, f.j + f.sd + 2, f.j + f.sd + 3))
FormTitle(f) == titleCase(cleanTitle(SubSeq(Stem, 1, f.i)))

\* Name holds a complete marker that starts after its first character
EarlierMarker(f) ==
    \E q \in 2..f.i : \E sd \in {1, 2} : MarkerAt(Stem, q, sd)

\* C9 as stated: every basename Name + separator + S<s>E<ee> + ".ext" parses
\* to a TV record with that season and episode, the normalised Name as title,
\* the extension and no year.
C9_Original ==
    phase = "parsed" => \A f \in TVForms :
        /\ rec.type = "tv"
        /\ rec.season = FormSeason(f)
        /\ rec.episode = FormEpisode(f)
        /\ rec.title = FormTitle(f)
        /\ rec.ext = ExtName(input)
        /\ "year" \notin DOMAIN rec

\* C9 amended: such a basename always parses to a TV record with the
\* extension and no year, also when it holds a year; season, episode and title
\* are those of the final marker provided no complete marker starts after the
\* first character of Name.
C9_TVForm ==
    phase = "parsed" => \A f \in TVForms :
        /\ rec.type = "tv"
        /\ rec.ext = ExtName(input)
        /\ "year" \notin DOMAIN rec
        /\ ~EarlierMarker(f) =>
              /\ rec.season = FormSeason(f)
              /\ rec.episode = FormEpisode(f)
              /\ rec.title = FormTitle(f)

\* C9 witness: a name of the form whose Name holds a year was parsed to a TV
\* record with a two-digit season.
C9_Witness ==
    /\ phase = "parsed"
    /\ \E f \in TVForms :
          /\ ~EarlierMarker(f)
          /\ f.sd = 2
          /\ \E q \in 1..f.i : YearDigitsAt(Stem, q)
    /\ rec.type = "tv"
    /\ rec.season = 12

\* the positions of Stem where a 4-digit substring starting 19 or 20 begins
YearPositions == {q \in 1..Len(Stem) : YearDigitsAt(Stem, q)}

YearValueAt(q) == ParseInt(SubSeq(Stem, q, q + 3))

TitlePrefix(q) ==
    IF q > 2 /\ Stem[q - 1] = "(" THEN SubSeq(Stem, 1, q - 2)
    ELSE SubSeq(Stem, 1, q - 1)

====
